---------------------------- MODULE Spec2Model ----------------------------
(***************************************************************************)
(* A model of retriever_asm.py: the fetch-execute loop run_program, its    *)
(* instruction handlers and the operand resolver parse_value.              *)
(*                                                                         *)
(* Text is modelled at the level of characters.  A token (one element of   *)
(* instruction.split()) is a sequence of one-character strings, and an     *)
(* instruction line is the sequence of its tokens; the blank line is the   *)
(* empty sequence.  Python's int(), str.strip('[]'), the `in` test on      *)
(* strings, string slicing and list indexing (negative indices included)   *)
(* are modelled by what they compute.  An uncaught Python exception ends   *)
(* run_program; the model records it as state = "Faulted".                 *)
(***************************************************************************)
EXTENDS Integers, Sequences, FiniteSets, TLC

\* ------------------------------------------------------------------ bounds
MaxVal == 2
RamSize == 3
MaxSteps == 7

\* ------------------------------------------------- Python string primitives
DigitChars == <<"0", "1", "2", "3", "4", "5", "6", "7", "8", "9">>

UpperChars == <<"A", "B", "C", "D", "E", "F", "G", "H", "I", "J", "K", "L", "M",
                "N", "O", "P", "Q", "R", "S", "T", "U", "V", "W", "X", "Y", "Z">>

LowerChars == <<"a", "b", "c", "d", "e", "f", "g", "h", "i", "j", "k", "l", "m",
                "n", "o", "p", "q", "r", "s", "t", "u", "v", "w", "x", "y", "z">>

IsDigit(c) == \E i \in 1..Len(DigitChars) : DigitChars[i] = c

DigitVal(c) == (CHOOSE i \in 1..Len(DigitChars) : DigitChars[i] = c) - 1

\* str.lower() on one character
lower_char(c) ==
    IF \E i \in 1..Len(UpperChars) : UpperChars[i] = c
    THEN LowerChars[CHOOSE i \in 1..Len(UpperChars) : UpperChars[i] = c]
    ELSE c

\* str.lower()
lower(s) == [i \in 1..Len(s) |-> lower_char(s[i])]

\* c in s, for a single character c
char_in(c, s) == \E i \in 1..Len(s) : s[i] = c

\* sub in s, for a string sub
str_in(sub, s) ==
    \E k \in 0..(Len(s) - Len(sub)) : SubSeq(s, k + 1, k + Len(sub)) = sub

\* s[0:n]
slice0(s, n) == SubSeq(s, 1, IF n < Len(s) THEN n ELSE Len(s))

\* s.strip('[]'): drop the leading and trailing run of '[' and ']'
IsBracket(c) == c = "[" \/ c = "]"

strip_brackets(s) ==
    LET keep == {i \in 1..Len(s) : ~IsBracket(s[i])}
    IN  IF keep = {} THEN <<>>
        ELSE LET lo == CHOOSE i \in keep : \A j \in keep : i <= j
                 hi == CHOOSE i \in keep : \A j \in keep : j <= i
             IN  SubSeq(s, lo, hi)

RECURSIVE digits_value(_)
digits_value(s) ==
    IF Len(s) = 0 THEN 0
    ELSE 10 * digits_value(SubSeq(s, 1, Len(s) - 1)) + DigitVal(s[Len(s)])

AllDigits(s) == Len(s) > 0 /\ \A i \in 1..Len(s) : IsDigit(s[i])

\* int(s): an optional sign followed by decimal digits, else ValueError
\* (ok = FALSE).  Tokens carry no whitespace and no underscores.
py_int(s) ==
    IF AllDigits(s) THEN [ok |-> TRUE, v |-> digits_value(s)]
    ELSE IF Len(s) > 1 /\ s[1] = "-" /\ AllDigits(Tail(s))
         THEN [ok |-> TRUE, v |-> 0 - digits_value(Tail(s))]
    ELSE IF Len(s) > 1 /\ s[1] = "+" /\ AllDigits(Tail(s))
         THEN [ok |-> TRUE, v |-> digits_value(Tail(s))]
    ELSE [ok |-> FALSE, v |-> 0]

\* the stripped line as one string: tokens joined by single blanks
RECURSIVE join(_)
join(toks) ==
    IF Len(toks) = 0 THEN <<>>
    ELSE IF Len(toks) = 1 THEN toks[1]
    ELSE toks[1] \o <<" ">> \o join(Tail(toks))

\* ---------------------------------------------------- Python list primitives
\* ram is a function on 0..size-1.  a[i] accepts -len <= i < len and counts
\* a negative index from the end; anything else is IndexError.
list_len(a) == Cardinality(DOMAIN a)

index_ok(a, i) == (0 - list_len(a)) <= i /\ i < list_len(a)

list_pos(a, i) == IF i < 0 THEN list_len(a) + i ELSE i

\* a quotient rounded toward zero
floordiv_truncating(x, y) ==
    LET ax == IF x < 0 THEN 0 - x ELSE x
        ay == IF y < 0 THEN 0 - y ELSE y
        q  == ax \div ay
    IN  IF (x < 0) = (y < 0) THEN q ELSE 0 - q

\* x // y and x % y for y # 0 (floor semantics)
floordiv(x, y) ==
    LET ax == IF x < 0 THEN 0 - x ELSE x
        ay == IF y < 0 THEN 0 - y ELSE y
        q  == ax \div ay
    IN  IF (x < 0) = (y < 0) THEN q
        ELSE IF q * ay = ax THEN 0 - q ELSE 0 - q - 1

pymod(x, y) == x - y * floordiv(x, y)

\* ------------------------------------------------------------- the program
VARIABLES program, ram, ic, flags, state, output, steps, last

vars == <<program, ram, ic, flags, state, output, steps, last>>

create_ram(size) == [i \in 0..(size - 1) |-> 0]

\* lines written by print() and input(): kind says which call wrote it
OutValue(v) == [kind |-> "value", val |-> v, text |-> <<>>]

OutText(toks) == [kind |-> "text", val |-> 0, text |-> join(toks)]

OutDivZero == [kind |-> "divzero", val |-> 0, text |-> <<>>]

OutInvalid(toks) == [kind |-> "invalid", val |-> 0, text |-> join(toks)]

OutPrompt == [kind |-> "prompt", val |-> 0, text |-> <<>>]

\* a handler that raised: nothing it had done so far is undone
Raise(mem) == [ok |-> FALSE, ram |-> mem, out |-> <<>>]

\* ram[i] as an expression
list_get(a, i) ==
    IF index_ok(a, i) THEN [ok |-> TRUE, v |-> a[list_pos(a, i)]]
    ELSE [ok |-> FALSE, v |-> 0]

\* a store that appends the missing cells instead of raising
list_set_growing(a, i, v) ==
    IF index_ok(a, i)
    THEN [ok |-> TRUE, ram |-> [a EXCEPT ![list_pos(a, i)] = v], out |-> <<>>]
    ELSE [ok |-> TRUE,
          ram |-> [k \in 0..(IF i < 0 THEN list_len(a) - 1 ELSE i) |->
                     IF k = i THEN v ELSE IF k \in DOMAIN a THEN a[k] ELSE 0],
          out |-> <<>>]

\* ram[i] = v
list_set(a, i, v) ==
    IF index_ok(a, i)
    THEN [ok |-> TRUE, ram |-> [a EXCEPT ![list_pos(a, i)] = v], out |-> <<>>]
    ELSE Raise(a)

parse_value(value, mem) ==
    IF char_in("[", value) /\ char_in("]", value)
    THEN LET k == py_int(strip_brackets(value))
         IN  IF k.ok THEN list_get(mem, k.v) ELSE [ok |-> FALSE, v |-> 0]
    ELSE py_int(value)

\* mov storing the source token's index where it should store the cell's value
mov_stores_index(instruction, mem) ==
    IF Len(instruction) # 3 THEN Raise(mem)
    ELSE LET dest == py_int(strip_brackets(instruction[2]))
         IN  IF ~dest.ok THEN Raise(mem)
             ELSE LET src == py_int(strip_brackets(instruction[3]))
                  IN  IF ~src.ok THEN Raise(mem)
                      ELSE list_set(mem, dest.v, src.v)

mov(instruction, mem) ==
    IF Len(instruction) # 3 THEN Raise(mem)
    ELSE LET dest == py_int(strip_brackets(instruction[2]))
         IN  IF ~dest.ok THEN Raise(mem)
             ELSE LET src == parse_value(instruction[3], mem)
                  IN  IF ~src.ok THEN Raise(mem)
                      ELSE list_set(mem, dest.v, src.v)

\* the first four statements of add, sub, mul, div and mod
operands(instruction, mem) ==
    LET bad == [ok |-> FALSE, dest |-> 0, arg1 |-> 0, arg2 |-> 0]
    IN  IF Len(instruction) # 4 THEN bad
        ELSE LET dest == py_int(strip_brackets(instruction[2]))
                 arg1 == parse_value(instruction[3], mem)
                 arg2 == parse_value(instruction[4], mem)
             IN  IF dest.ok /\ arg1.ok /\ arg2.ok
                 THEN [ok |-> TRUE, dest |-> dest.v, arg1 |-> arg1.v, arg2 |-> arg2.v]
                 ELSE bad

\* add that stores arg1 at dest before it resolves arg2
add_in_place(instruction, mem) ==
    IF Len(instruction) # 4 THEN Raise(mem)
    ELSE LET dest == py_int(strip_brackets(instruction[2]))
             arg1 == parse_value(instruction[3], mem)
         IN  IF ~(dest.ok /\ arg1.ok) THEN Raise(mem)
             ELSE LET first == list_set(mem, dest.v, arg1.v)
                      arg2  == parse_value(instruction[4], first.ram)
                  IN  IF ~first.ok THEN Raise(mem)
                      ELSE IF ~arg2.ok THEN Raise(first.ram)
                      ELSE list_set(first.ram, dest.v, arg1.v + arg2.v)

add(instruction, mem) ==
    LET o == operands(instruction, mem)
    IN  IF ~o.ok THEN Raise(mem) ELSE list_set(mem, o.dest, o.arg1 + o.arg2)

sub(instruction, mem) ==
    LET o == operands(instruction, mem)
    IN  IF ~o.ok THEN Raise(mem) ELSE list_set(mem, o.dest, o.arg1 - o.arg2)

mul(instruction, mem) ==
    LET o == operands(instruction, mem)
    IN  IF ~o.ok THEN Raise(mem) ELSE list_set(mem, o.dest, o.arg1 * o.arg2)

\* div without the test for a zero divisor: arg1 // 0 raises
div_unguarded(instruction, mem) ==
    LET o == operands(instruction, mem)
    IN  IF ~o.ok THEN Raise(mem)
        ELSE IF o.arg2 = 0 THEN Raise(mem)
        ELSE list_set(mem, o.dest, floordiv(o.arg1, o.arg2))

div(instruction, mem) ==
    LET o == operands(instruction, mem)
    IN  IF ~o.ok THEN Raise(mem)
        ELSE IF o.arg2 = 0 THEN [ok |-> TRUE, ram |-> mem, out |-> <<OutDivZero>>]
        ELSE list_set(mem, o.dest, floordiv(o.arg1, o.arg2))

mod(instruction, mem) ==
    LET o == operands(instruction, mem)
    IN  IF ~o.ok THEN Raise(mem)
        ELSE IF o.arg2 = 0 THEN [ok |-> TRUE, ram |-> mem, out |-> <<OutDivZero>>]
        ELSE list_set(mem, o.dest, pymod(o.arg1, o.arg2))

\* the branch of jmp's if/elif chain an instruction text selects
jmp_kind(instruction) ==
    LET text == join(instruction)
    IN  IF slice0(text, 2) = <<"J", "L">> THEN "JL"
        ELSE IF slice0(text, 2) = <<"J", "G">> THEN "JG"
        ELSE IF slice0(text, 3) = <<"J", "L", "E">> THEN "JLE"
        ELSE IF slice0(text, 3) = <<"J", "G", "E">> THEN "JGE"
        ELSE IF slice0(text, 2) = <<"J", "E">> THEN "JE"
        ELSE IF slice0(text, 3) = <<"J", "N", "E">> THEN "JNE"
        ELSE "JMP"

\* jmp with the tests of JE and JNE exchanged
jmp_taken_swapped(kind, fl) ==
    CASE kind = "JL"  -> fl.less
      [] kind = "JG"  -> fl.greater
      [] kind = "JLE" -> fl.less \/ fl.equal
      [] kind = "JGE" -> fl.greater \/ fl.equal
      [] kind = "JE"  -> ~fl.equal
      [] kind = "JNE" -> fl.equal
      [] OTHER        -> TRUE

\* the condition that branch tests
jmp_taken(kind, fl) ==
    CASE kind = "JL"  -> fl.less
      [] kind = "JG"  -> fl.greater
      [] kind = "JLE" -> fl.less \/ fl.equal
      [] kind = "JGE" -> fl.greater \/ fl.equal
      [] kind = "JE"  -> fl.equal
      [] kind = "JNE" -> ~fl.equal
      [] OTHER        -> TRUE

jmp(instruction, mem, counter, fl) ==
    IF Len(instruction) < 2 THEN [ok |-> FALSE, ic |-> counter]
    ELSE LET location == parse_value(instruction[2], mem)
         IN  IF ~location.ok THEN [ok |-> FALSE, ic |-> counter]
             ELSE IF jmp_taken(jmp_kind(instruction), fl)
                  THEN [ok |-> TRUE, ic |-> location.v]
                  ELSE [ok |-> TRUE, ic |-> counter + 1]

\* cmp that also stores greater as the negation of less or equal
cmp_derives_greater(instruction, mem, fl) ==
    IF Len(instruction) # 3 THEN [ok |-> FALSE, flags |-> fl]
    ELSE LET arg1 == parse_value(instruction[2], mem)
             arg2 == parse_value(instruction[3], mem)
         IN  IF ~(arg1.ok /\ arg2.ok) THEN [ok |-> FALSE, flags |-> fl]
             ELSE [ok |-> TRUE,
                   flags |-> [less |-> arg1.v < arg2.v,
                              equal |-> arg1.v = arg2.v,
                              greater |-> arg1.v > arg2.v]]

\* cmp that leaves less as it was when the operands are equal
cmp_keeps_less(instruction, mem, fl) ==
    IF Len(instruction) # 3 THEN [ok |-> FALSE, flags |-> fl]
    ELSE LET arg1 == parse_value(instruction[2], mem)
             arg2 == parse_value(instruction[3], mem)
         IN  IF ~(arg1.ok /\ arg2.ok) THEN [ok |-> FALSE, flags |-> fl]
             ELSE IF arg1.v < arg2.v
                  THEN [ok |-> TRUE, flags |-> [fl EXCEPT !.less = TRUE, !.equal = FALSE]]
             ELSE IF arg1.v > arg2.v
                  THEN [ok |-> TRUE, flags |-> [fl EXCEPT !.less = FALSE, !.equal = FALSE]]
             ELSE [ok |-> TRUE, flags |-> [fl EXCEPT !.equal = TRUE]]

cmp(instruction, mem, fl) ==
    IF Len(instruction) # 3 THEN [ok |-> FALSE, flags |-> fl]
    ELSE LET arg1 == parse_value(instruction[2], mem)
             arg2 == parse_value(instruction[3], mem)
         IN  IF ~(arg1.ok /\ arg2.ok) THEN [ok |-> FALSE, flags |-> fl]
             ELSE IF arg1.v < arg2.v
                  THEN [ok |-> TRUE, flags |-> [fl EXCEPT !.less = TRUE, !.equal = FALSE]]
             ELSE IF arg1.v > arg2.v
                  THEN [ok |-> TRUE, flags |-> [fl EXCEPT !.less = FALSE, !.equal = FALSE]]
             ELSE [ok |-> TRUE, flags |-> [fl EXCEPT !.less = FALSE, !.equal = TRUE]]

\* 'print' in instruction.lower()
is_print(instruction) ==
    str_in(<<"p", "r", "i", "n", "t">>, lower(join(instruction)))

\* the print branch of interrupt
interrupt_print(instruction, mem) ==
    IF Len(instruction) < 3 THEN Raise(mem)
    ELSE IF char_in("[", instruction[3])
         THEN LET k == py_int(strip_brackets(instruction[3]))
                  cell == list_get(mem, k.v)
              IN  IF k.ok /\ cell.ok
                  THEN [ok |-> TRUE, ram |-> mem, out |-> <<OutValue(cell.v)>>]
                  ELSE Raise(mem)
         ELSE [ok |-> TRUE, ram |-> mem,
               out |-> <<OutText(SubSeq(instruction, 3, Len(instruction)))>>]

\* the input branch of interrupt; typed is the line input() returned
interrupt_input(instruction, mem, typed) ==
    LET input2 == py_int(typed)
        failed == [ok |-> FALSE, ram |-> mem, out |-> <<OutPrompt>>]
    IN  IF ~input2.ok THEN failed
        ELSE IF Len(instruction) < 3 THEN failed
        ELSE LET dest == py_int(strip_brackets(instruction[3]))
             IN  IF ~dest.ok THEN failed
                 ELSE LET w == list_set(mem, dest.v, input2.v)
                      IN  [ok |-> w.ok, ram |-> w.ram, out |-> <<OutPrompt>>]

\* hlt leaving the counter where it is
hlt_keeps_counter(counter) == counter

hlt(counter) == 0 - 2

\* ------------------------------------------------------------- run_program
OpMOV == <<"M", "O", "V">>
OpADD == <<"A", "D", "D">>
OpSUB == <<"S", "U", "B">>
OpMUL == <<"M", "U", "L">>
OpDIV == <<"D", "I", "V">>
OpMOD == <<"M", "O", "D">>
OpCMP == <<"C", "M", "P">>
OpHLT == <<"H", "L", "T">>
OpINT == <<"I", "N", "T">>

\* a dispatch that compares the opcode without regard to case
dispatch_ignoring_case(instruction) ==
    IF instruction = <<>> THEN "NOP"
    ELSE IF lower(instruction[1]) = lower(OpMOV) THEN "MOV"
    ELSE IF lower(instruction[1]) = lower(OpADD) THEN "ADD"
    ELSE IF lower(instruction[1]) = lower(OpSUB) THEN "SUB"
    ELSE IF lower(instruction[1]) = lower(OpMUL) THEN "MUL"
    ELSE IF lower(instruction[1]) = lower(OpDIV) THEN "DIV"
    ELSE IF lower(instruction[1]) = lower(OpMOD) THEN "MOD"
    ELSE IF char_in("J", instruction[1]) THEN "JMP"
    ELSE IF lower(instruction[1]) = lower(OpCMP) THEN "CMP"
    ELSE IF lower(instruction[1]) = lower(OpHLT) THEN "HLT"
    ELSE IF lower(instruction[1]) = lower(OpINT) THEN "INT"
    ELSE "INVALID"

\* the branch of run_program's if/elif chain an instruction selects
dispatch(instruction) ==
    IF instruction = <<>> THEN "NOP"
    ELSE IF instruction[1] = OpMOV THEN "MOV"
    ELSE IF instruction[1] = OpADD THEN "ADD"
    ELSE IF instruction[1] = OpSUB THEN "SUB"
    ELSE IF instruction[1] = OpMUL THEN "MUL"
    ELSE IF instruction[1] = OpDIV THEN "DIV"
    ELSE IF instruction[1] = OpMOD THEN "MOD"
    ELSE IF char_in("J", instruction[1]) THEN "JMP"
    ELSE IF instruction[1] = OpCMP THEN "CMP"
    ELSE IF instruction[1] = OpHLT THEN "HLT"
    ELSE IF instruction[1] = OpINT THEN "INT"
    ELSE "INVALID"

\* program[ic[0]]: a negative counter indexes from the end of the list
fetch_ok(prog, counter) == (0 - Len(prog)) <= counter /\ counter < Len(prog)

fetch_pos(prog, counter) == IF counter < 0 THEN Len(prog) + counter ELSE counter

fetch(prog, counter) == prog[fetch_pos(prog, counter) + 1]

\* a loop that adds 1 to the counter after a jump as well
loop_tail_always(counter, jump_flag) == counter + 1

\* a loop that never adds 1 to the counter
loop_tail_never(counter, jump_flag) == counter

\* the end of the loop body: the counter the next test sees
loop_tail(counter, jump_flag) == IF ~jump_flag THEN counter + 1 ELSE counter

\* while ic[0] < len(program)
loop_test(prog, counter) == IF counter < Len(prog) THEN "Running" ELSE "Completed"

\* an iteration starts: the loop test held and the line at ic selects branch
Fetched(branch) ==
    /\ state = "Running"
    /\ steps < MaxSteps
    /\ fetch_ok(program, ic)
    /\ dispatch(fetch(program, ic)) = branch

\* an iteration ends: the handler returned (ok) or raised
Finish(ok, mem, fl, out, counter, jump_flag) ==
    /\ program' = program
    /\ ram' = mem
    /\ flags' = fl
    /\ output' = output \o out
    /\ steps' = steps + 1
    /\ last' = fetch_pos(program, ic)
    /\ IF ok
       THEN /\ ic' = loop_tail(counter, jump_flag)
            /\ state' = loop_test(program, loop_tail(counter, jump_flag))
       ELSE /\ ic' = counter
            /\ state' = "Faulted"

Nop ==
    /\ Fetched("NOP")
    /\ Finish(TRUE, ram, flags, <<>>, ic, FALSE)

Mov ==
    /\ Fetched("MOV")
    /\ LET r == mov(fetch(program, ic), ram)
       IN  Finish(r.ok, r.ram, flags, r.out, ic, FALSE)

Add ==
    /\ Fetched("ADD")
    /\ LET r == add(fetch(program, ic), ram)
       IN  Finish(r.ok, r.ram, flags, r.out, ic, FALSE)

Sub ==
    /\ Fetched("SUB")
    /\ LET r == sub(fetch(program, ic), ram)
       IN  Finish(r.ok, r.ram, flags, r.out, ic, FALSE)

Mul ==
    /\ Fetched("MUL")
    /\ LET r == mul(fetch(program, ic), ram)
       IN  Finish(r.ok, r.ram, flags, r.out, ic, FALSE)

Div ==
    /\ Fetched("DIV")
    /\ LET r == div(fetch(program, ic), ram)
       IN  Finish(r.ok, r.ram, flags, r.out, ic, FALSE)

Mod ==
    /\ Fetched("MOD")
    /\ LET r == mod(fetch(program, ic), ram)
       IN  Finish(r.ok, r.ram, flags, r.out, ic, FALSE)

Jmp ==
    /\ Fetched("JMP")
    /\ LET r == jmp(fetch(program, ic), ram, ic, flags)
       IN  Finish(r.ok, ram, flags, <<>>, r.ic, TRUE)

Cmp ==
    /\ Fetched("CMP")
    /\ LET r == cmp(fetch(program, ic), ram, flags)
       IN  Finish(r.ok, ram, r.flags, <<>>, ic, FALSE)

Hlt ==
    /\ Fetched("HLT")
    /\ program' = program
    /\ ram' = ram
    /\ flags' = flags
    /\ output' = output
    /\ steps' = steps + 1
    /\ last' = fetch_pos(program, ic)
    /\ ic' = hlt(ic)
    /\ state' = "Halted"

IntPrint ==
    /\ Fetched("INT")
    /\ is_print(fetch(program, ic))
    /\ LET r == interrupt_print(fetch(program, ic), ram)
       IN  Finish(r.ok, r.ram, flags, r.out, ic, FALSE)

Invalid ==
    /\ Fetched("INVALID")
    /\ Finish(TRUE, ram, flags, <<OutInvalid(fetch(program, ic))>>, ic, FALSE)

\* program[ic[0]] with ic[0] < -len(program) raises IndexError
FetchFault ==
    /\ state = "Running"
    /\ steps < MaxSteps
    /\ ~fetch_ok(program, ic)
    /\ state' = "Faulted"
    /\ UNCHANGED <<program, ram, ic, flags, output, steps, last>>

\* ------------------------------------------------------- programs and input
\* decimal text of an integer, as it is written in a program line
RECURSIVE nat_tok(_)
nat_tok(n) ==
    IF n < 10 THEN <<DigitChars[n + 1]>>
    ELSE nat_tok(n \div 10) \o <<DigitChars[(n % 10) + 1]>>

int_tok(n) == IF n < 0 THEN <<"-">> \o nat_tok(0 - n) ELSE nat_tok(n)

br(tok) == <<"[">> \o tok \o <<"]">>

Vals == (0 - MaxVal)..MaxVal

\* cell indices written in brackets: in range, one past the last cell,
\* counted from the end, and one before the first cell counted from the end
Idxs == (0..RamSize) \cup {0 - 1, 0 - RamSize - 1}

ImmToks == {int_tok(v) : v \in Vals}

MemToks == {br(int_tok(i)) : i \in Idxs}

TokX == <<"x">>

SrcToks == ImmToks \cup MemToks \cup {TokX, <<"[", "0">>, <<"]", "1", "[">>}

DestToks == MemToks \cup {int_tok(1), br(TokX), <<"]", "1", "[">>}

ArithDestToks == {br(int_tok(0)), br(int_tok(RamSize)),
                  br(int_tok(0 - 1)), int_tok(1)}

ArgToks == ImmToks \cup {br(int_tok(0))}

ArgPairs == (ArgToks \X ArgToks)
            \cup {<<br(int_tok(RamSize)), int_tok(1)>>,
                  <<int_tok(1), br(int_tok(0 - RamSize - 1))>>,
                  <<TokX, int_tok(1)>>,
                  <<int_tok(1), br(int_tok(0 - 1))>>}

ArithOps == {OpADD, OpSUB, OpMUL, OpDIV, OpMOD}

JumpOps == {<<"J", "M", "P">>, <<"J", "L">>, <<"J", "G">>, <<"J", "L", "E">>,
            <<"J", "G", "E">>, <<"J", "E">>, <<"J", "N", "E">>, <<"J">>,
            <<"X", "J", "L">>}

TargetToks == {int_tok(0), int_tok(2), int_tok(3), int_tok(MaxSteps),
               int_tok(0 - 1), int_tok(0 - MaxSteps),
               br(int_tok(0)), br(int_tok(RamSize)), TokX}

TokPRINT == <<"P", "R", "I", "N", "T">>

TokWrong == <<"w", "r", "o", "n", "g">>

TokIN == <<"I", "N">>

PrintWrong == <<OpINT, TokPRINT, TokWrong>>

MovInstrs == {<<OpMOV, d, v>> : d \in DestToks, v \in SrcToks} \cup {<<OpMOV, br(int_tok(0))>>}

ArithInstrs == {<<o, d, p[1], p[2]>> : o \in ArithOps, d \in ArithDestToks, p \in ArgPairs}
               \cup {<<o, br(int_tok(0)), int_tok(1)>> : o \in ArithOps}

CmpInstrs == {<<OpCMP, p[1], p[2]>> : p \in ArgPairs} \cup {<<OpCMP, int_tok(1)>>}

JumpInstrs == {<<o, t>> : o \in JumpOps, t \in TargetToks} \cup {<<<<"J", "M", "P">>>>}

IntInstrs == {PrintWrong, <<OpINT, TokPRINT>>,
              <<OpINT, <<"p", "r", "i", "n", "t">>, TokWrong, TokX>>,
              <<OpINT, TokPRINT, <<"[", "0">>>>,
              <<OpINT, TokIN>>}
             \cup {<<OpINT, TokPRINT, t>> : t \in MemToks}
             \cup {<<OpINT, TokIN, t>> : t \in DestToks}

OtherInstrs == {<<>>, <<OpHLT>>, <<OpMOV, br(int_tok(1000)), int_tok(5)>>, <<OpHLT, TokX>>, <<<<"N", "O", "P">>>>,
                <<<<"m", "o", "v">>, br(int_tok(0)), int_tok(1)>>,
                <<<<"A", "D", "D", "X">>, br(int_tok(0)), int_tok(1), int_tok(1)>>}

Instrs == MovInstrs \cup ArithInstrs \cup CmpInstrs \cup JumpInstrs
          \cup IntInstrs \cup OtherInstrs

\* what precedes the instruction: nothing, a comparison of each outcome, or
\* a cell holding any typed value and its comparison with 0
Prefixes == {<<>>,
             <<<<OpCMP, int_tok(0), int_tok(1)>>>>,
             <<<<OpCMP, int_tok(1), int_tok(0)>>>>,
             <<<<OpCMP, int_tok(0), int_tok(0)>>>>,
             <<<<OpINT, TokIN, br(int_tok(0))>>, <<OpCMP, br(int_tok(0)), int_tok(0)>>>>}

Suffixes == {<<>>, <<PrintWrong>>}

\* the two end-to-end programs of the specification's section 8
JumpProgram ==
    << <<OpMOV, br(int_tok(0)), int_tok(5)>>,
       <<OpMOV, br(int_tok(1)), int_tok(3)>>,
       <<OpADD, br(int_tok(2)), br(int_tok(0)), br(int_tok(1))>>,
       <<OpCMP, br(int_tok(2)), int_tok(8)>>,
       <<<<"J", "E">>, int_tok(6)>>,
       PrintWrong,
       <<OpHLT>> >>

DivProgram ==
    << <<OpMOV, br(int_tok(0)), int_tok(10)>>,
       <<OpMOV, br(int_tok(1)), int_tok(0)>>,
       <<OpDIV, br(int_tok(2)), br(int_tok(0)), br(int_tok(1))>>,
       <<OpHLT>> >>

Programs == {pre \o <<i>> \o post : pre \in Prefixes, i \in Instrs, post \in Suffixes}
            \cup {<<>>, JumpProgram, DivProgram}

\* lines the user may type at the prompt
TypedLines == ImmToks \cup {TokX}

IntInput ==
    /\ Fetched("INT")
    /\ ~is_print(fetch(program, ic))
    /\ \E typed \in TypedLines :
         LET r == interrupt_input(fetch(program, ic), ram, typed)
         IN  Finish(r.ok, r.ram, flags, r.out, ic, FALSE)

Init ==
    /\ program \in Programs
    /\ ram = create_ram(RamSize)
    /\ ic = 0
    /\ flags = [less |-> FALSE, equal |-> FALSE, greater |-> FALSE]
    /\ state = loop_test(program, 0)
    /\ output = <<>>
    /\ steps = 0
    /\ last = 0 - 1

Next ==
    \/ Nop
    \/ Mov
    \/ Add
    \/ Sub
    \/ Mul
    \/ Div
    \/ Mod
    \/ Jmp
    \/ Cmp
    \/ Hlt
    \/ IntPrint
    \/ IntInput
    \/ Invalid
    \/ FetchFault

Spec == Init /\ [][Next]_vars

\* Termination is checked on a smaller family of programs, one or more
\* lines for every branch of the loop, behind the same prefixes.
TermInstrs == {<<>>, <<OpHLT>>, PrintWrong,
               <<OpMOV, br(int_tok(0)), int_tok(1)>>,
               <<OpMOV, br(int_tok(RamSize)), int_tok(1)>>,
               <<OpADD, br(int_tok(0)), br(int_tok(0)), int_tok(1)>>,
               <<OpSUB, br(int_tok(0)), int_tok(1), br(int_tok(0))>>,
               <<OpMUL, br(int_tok(0)), int_tok(MaxVal), int_tok(MaxVal)>>,
               <<OpDIV, br(int_tok(0)), int_tok(1), int_tok(0)>>,
               <<OpMOD, br(int_tok(0)), int_tok(0 - 1), int_tok(MaxVal)>>,
               <<OpCMP, br(int_tok(0)), int_tok(1)>>,
               <<OpINT, TokPRINT, br(int_tok(0))>>,
               <<OpINT, TokIN, br(int_tok(1))>>,
               <<<<"N", "O", "P">>>>,
               <<<<"J", "M", "P">>, int_tok(0)>>,
               <<<<"J", "M", "P">>, int_tok(0 - MaxSteps)>>,
               <<<<"J", "L">>, int_tok(3)>>,
               <<<<"J", "N", "E">>, int_tok(0 - 1)>>}

TermPrograms == {pre \o <<i>> \o post : pre \in Prefixes, i \in TermInstrs, post \in Suffixes}
                \cup {DivProgram, JumpProgram}

TermInit ==
    /\ program \in TermPrograms
    /\ ram = create_ram(RamSize)
    /\ ic = 0
    /\ flags = [less |-> FALSE, equal |-> FALSE, greater |-> FALSE]
    /\ state = loop_test(program, 0)
    /\ output = <<>>
    /\ steps = 0
    /\ last = 0 - 1

\* the interpreter is one sequential loop that keeps taking its next step
\* (a blocking input() is answered)
FairSpec == TermInit /\ [][Next]_vars /\ WF_vars(Next)

TypeOK ==
    /\ state \in {"Running", "Completed", "Halted", "Faulted"}
    /\ flags \in [less : BOOLEAN, equal : BOOLEAN, greater : BOOLEAN]
    /\ steps \in 0..MaxSteps

\* ------------------------------------------------------------ the properties
\* What a program line means, read off its text without the interpreter's
\* own parsing: literals and bracketed indices are recognised by comparing
\* the token with the decimal text of a number.
Lits == (0 - 10)..10

Cells == 0..(RamSize - 1)

\* the literals a token denotes (at most one)
LitOf(tok) == {v \in Lits : tok = int_tok(v)}

\* the indices a bracketed token denotes (at most one)
IdxOf(tok) == {i \in (Lits \cup {1000}) : tok = br(int_tok(i))}

\* the values a source operand resolves to: a literal, or an in-range cell
Resolved(tok, mem) ==
    LitOf(tok) \cup {mem[i] : i \in (IdxOf(tok) \cap Cells)}

\* a step of the loop executed the line at index last'
Stepped == steps' = steps + 1

Executed == program[last' + 1]

ExecutedOp(op) == Stepped /\ Executed # <<>> /\ Executed[1] = op

\* the line executed just before the one that is about to execute
Previous == program[last + 1]

AfterCmp ==
    /\ last >= 0
    /\ Previous # <<>>
    /\ Previous[1] = OpCMP
    /\ Len(Previous) = 3
    /\ Resolved(Previous[2], ram) # {}
    /\ Resolved(Previous[3], ram) # {}

\* CMP a, b at index last, then the jump op at the next index, its target
\* resolving to t: the branch is taken exactly when Cond(a, b)
CmpThenJump(op, Cond(_, _)) ==
    (/\ AfterCmp
     /\ state = "Running"
     /\ ic = last + 1
     /\ ExecutedOp(op)
     /\ last' = ic
     /\ Len(Executed) = 2
     /\ Resolved(Executed[2], ram) # {})
    => \A a \in Resolved(Previous[2], ram), b \in Resolved(Previous[3], ram),
          t \in Resolved(Executed[2], ram) :
           /\ state' # "Faulted"
           /\ Cond(a, b) => ic' = t
           /\ ~Cond(a, b) => ic' = ic + 1

IsLess(a, b) == a < b

IsGreater(a, b) == a > b

IsEqual(a, b) == a = b

IsNotEqual(a, b) == a # b

\* C1: after CMP a, b exactly one of less, equal, greater is true: less iff
\* a < b, equal iff a = b, greater iff a > b.
C1_CmpSetsExactlyOneFlag ==
    [][(/\ ExecutedOp(OpCMP)
        /\ Len(Executed) = 3
        /\ Resolved(Executed[2], ram) # {}
        /\ Resolved(Executed[3], ram) # {})
       => \A a \in Resolved(Executed[2], ram), b \in Resolved(Executed[3], ram) :
             /\ flags'.less = (a < b)
             /\ flags'.equal = (a = b)
             /\ flags'.greater = (a > b)
             /\ flags'.greater = ~(flags'.less \/ flags'.equal)]_vars

\* C2: JLE branches exactly when less or equal is set, JGE exactly when
\* greater or equal is set; neither is decided by the JL / JG condition.
C2_JleJgeConditions ==
    [][/\ (/\ ExecutedOp(<<"J", "L", "E">>)
           /\ Len(Executed) = 2
           /\ Resolved(Executed[2], ram) # {})
          => \A t \in Resolved(Executed[2], ram) :
                /\ (flags.less \/ flags.equal) => ic' = t
                /\ ~(flags.less \/ flags.equal) => ic' = ic + 1
       /\ (/\ ExecutedOp(<<"J", "G", "E">>)
           /\ Len(Executed) = 2
           /\ Resolved(Executed[2], ram) # {})
          => \A t \in Resolved(Executed[2], ram) :
                /\ (flags.greater \/ flags.equal) => ic' = t
                /\ ~(flags.greater \/ flags.equal) => ic' = ic + 1]_vars

\* C3: CMP a, b immediately followed by JL target sets IC to target iff
\* a < b, and by JG target iff a > b; otherwise IC advances by 1.
C3_CmpThenJlJg ==
    [][/\ CmpThenJump(<<"J", "L">>, IsLess)
       /\ CmpThenJump(<<"J", "G">>, IsGreater)]_vars

\* C4: CMP a, b immediately followed by JE target sets IC to target iff
\* a = b, and by JNE target iff a # b; in the other case IC advances by 1.
C4_CmpThenJeJne ==
    [][/\ CmpThenJump(<<"J", "E">>, IsEqual)
       /\ CmpThenJump(<<"J", "N", "E">>, IsNotEqual)]_vars

\* the typed value 0 was compared with 0, then JE 0 executed and branched
C4_Witness ==
    /\ steps = 3
    /\ last = 2
    /\ Len(program) = 4
    /\ program[2] = <<OpCMP, br(int_tok(0)), int_tok(0)>>
    /\ program[3] = <<<<"J", "E">>, int_tok(0)>>
    /\ ram[0] = 0
    /\ flags.equal
    /\ state = "Running"
    /\ ic = 0

\* C5: MOV dest, src with an in-range destination and a resolvable source
\* stores the value src resolved to before the instruction at Memory[dest],
\* changes no other cell and leaves the flags alone.
C5_MovFrame ==
    [][(/\ ExecutedOp(OpMOV)
        /\ Len(Executed) = 3
        /\ (IdxOf(Executed[2]) \cap Cells) # {}
        /\ Resolved(Executed[3], ram) # {})
       => \A d \in (IdxOf(Executed[2]) \cap Cells), v \in Resolved(Executed[3], ram) :
             /\ state' # "Faulted"
             /\ DOMAIN ram' = DOMAIN ram
             /\ ram'[d] = v
             /\ \A c \in Cells \ {d} : ram'[c] = ram[c]
             /\ flags' = flags]_vars

\* -1 was typed into cell 0 and compared with 0, then MOV [1] [0] copied it
C5_Witness ==
    /\ steps = 3
    /\ last = 2
    /\ program[3] = <<OpMOV, br(int_tok(1)), br(int_tok(0))>>
    /\ ram[0] = 0 - 1
    /\ ram[1] = 0 - 1
    /\ flags.less
    /\ state # "Faulted"

\* a DIV or MOD line with a bracketed integer destination, a first source
\* that resolves and a second source that resolves to 0
DividesByZero ==
    /\ (ExecutedOp(OpDIV) \/ ExecutedOp(OpMOD))
    /\ Len(Executed) = 4
    /\ IdxOf(Executed[2]) # {}
    /\ Resolved(Executed[3], ram) # {}
    /\ 0 \in Resolved(Executed[4], ram)

\* C6: a DIV or MOD whose second source operand resolves to 0 leaves the
\* whole memory unchanged and is reported; the run neither faults nor stops
\* and goes on at IC+1.  MOV [0] 10; MOV [1] 0; DIV [2] [0] [1]; HLT ends
\* halted with Memory[2] = 0.
C6_DivModByZero ==
    [][/\ DividesByZero
          => /\ ram' = ram
             /\ flags' = flags
             /\ output' = output \o <<OutDivZero>>
             /\ state' \in {"Running", "Completed"}
             /\ ic' = ic + 1
       /\ (program = DivProgram /\ Stepped)
          => /\ state' \in {"Running", "Halted"}
             /\ state' = "Running" => ic' = steps'
             /\ state' = "Halted"
                => /\ steps' = 4
                   /\ ram'[0] = 10
                   /\ \A c \in Cells \ {0} : ram'[c] = 0]_vars

\* the division program ran to its HLT, reporting the division by zero
C6_Witness ==
    /\ program = DivProgram
    /\ state = "Halted"
    /\ output = <<OutDivZero>>
    /\ ram[2] = 0

\* C7: when HLT executes the run ends in that step: IC becomes a value that
\* is no index of the program, memory, flags and output stay as they were,
\* and no instruction executes afterwards.  A program that is just HLT ends
\* with every cell 0.
C7_HltEndsRun ==
    [][/\ state # "Halted"
       /\ ExecutedOp(OpHLT)
          => /\ state' = "Halted"
             /\ ic' \notin 0..(Len(program) - 1)
             /\ ram' = ram
             /\ flags' = flags
             /\ output' = output
       /\ (program = <<<<OpHLT>>>> /\ Stepped)
          => /\ state' = "Halted"
             /\ \A c \in Cells : ram'[c] = 0]_vars

\* HLT executed after a comparison and with a line after it left unexecuted
C7_Witness ==
    /\ state = "Halted"
    /\ steps = 2
    /\ last = 1
    /\ program[2] = <<OpHLT>>
    /\ Len(program) = 3
    /\ flags.less
    /\ output = <<>>

DataOps == {OpMOV, OpADD, OpSUB, OpMUL, OpDIV, OpMOD}

JumpMnemonics == {<<"J", "M", "P">>, <<"J", "L">>, <<"J", "G">>, <<"J", "L", "E">>,
                  <<"J", "G", "E">>, <<"J", "E">>, <<"J", "N", "E">>}

\* the PRINT keyword, in any case, among the tokens after the opcode
HasPrintKeyword(instr) ==
    \E k \in 2..Len(instr) : lower(instr[k]) = <<"p", "r", "i", "n", "t">>

\* the destination token of a line, if it has one
DestOf(instr) ==
    IF instr = <<>> THEN {}
    ELSE IF instr[1] \in DataOps /\ Len(instr) >= 2 THEN {instr[2]}
    ELSE IF instr[1] = OpINT /\ ~HasPrintKeyword(instr) /\ Len(instr) >= 3 THEN {instr[3]}
    ELSE {}

\* the source tokens of a line
SourcesOf(instr) ==
    IF instr = <<>> THEN {}
    ELSE IF instr[1] \in DataOps THEN {instr[k] : k \in 3..Len(instr)}
    ELSE IF instr[1] \in JumpMnemonics \cup {OpCMP} THEN {instr[k] : k \in 2..Len(instr)}
    ELSE IF instr[1] = OpINT /\ HasPrintKeyword(instr) /\ Len(instr) >= 3 THEN {instr[3]}
    ELSE {}

DestOutOfRange(instr) == \E tok \in DestOf(instr) : \E i \in IdxOf(tok) : i >= RamSize

\* the handler of a DIV or MOD line read both sources and found the second 0
ReadsZeroDivisor(instr, mem) ==
    /\ instr # <<>>
    /\ instr[1] \in {OpDIV, OpMOD}
    /\ Len(instr) = 4
    /\ parse_value(instr[3], mem).ok
    /\ parse_value(instr[4], mem).ok
    /\ parse_value(instr[4], mem).v = 0

NegativeIndex(instr) ==
    \E tok \in DestOf(instr) \cup SourcesOf(instr) : \E i \in IdxOf(tok) : i < 0

\* C9: an instruction with a negative index, as a bracketed source or as its
\* destination, ends the run Faulted and writes no cell.
C9_NegativeIndexFaults ==
    [][(Stepped /\ NegativeIndex(Executed))
       => /\ state' = "Faulted"
          /\ ram' = ram]_vars

\* C10: the program MOV [0] 5; MOV [1] 3; ADD [2] [0] [1]; CMP [2] 8; JE 6;
\* INT PRINT wrong; HLT never executes index 5 and prints nothing; it runs
\* indices 0, 1, 2, 3, 4, 6 and ends Halted with Memory[0..2] = 5, 3, 8.
C10_JumpProgramSkipsPrint ==
    program = JumpProgram
    => /\ output = <<>>
       /\ last # 5
       /\ steps <= 6
       /\ steps < 6 => (state = "Running" /\ ic = (IF steps = 5 THEN 6 ELSE steps))
       /\ steps = 6 => /\ state = "Halted"
                       /\ last = 6
                       /\ ram[0] = 5
                       /\ ram[1] = 3
                       /\ ram[2] = 8

\* the program reached its HLT
C10_Witness ==
    /\ program = JumpProgram
    /\ state = "Halted"
    /\ flags.equal

KnownOps == DataOps \cup {OpCMP, OpINT, OpHLT}

\* the jump family of the dispatch rule: an opcode with the letter J in it
InJumpFamily(op) == \E k \in 1..Len(op) : op[k] = "J"

UnknownOpcode(instr) ==
    /\ instr # <<>>
    /\ instr[1] \notin KnownOps
    /\ ~InJumpFamily(instr[1])

\* C11: an instruction whose opcode is none of MOV, ADD, SUB, MUL, DIV, MOD,
\* CMP, INT, HLT and is not of the jump family is reported as invalid;
\* memory and flags are unchanged, the run does not stop and goes on at IC+1.
C11_UnknownInstructionContinues ==
    [][(Stepped /\ UnknownOpcode(Executed))
       => /\ output' = output \o <<OutInvalid(Executed)>>
          /\ ram' = ram
          /\ flags' = flags
          /\ state' \in {"Running", "Completed"}
          /\ ic' = ic + 1]_vars

\* after a comparison the line mov [0] 1 was reported and the next line ran
C11_Witness ==
    /\ steps = 3
    /\ last = 2
    /\ program[2] = <<<<"m", "o", "v">>, br(int_tok(0)), int_tok(1)>>
    /\ program[3] = PrintWrong
    /\ flags.less
    /\ ram[0] = 0
    /\ Len(output) = 2
    /\ output[1].kind = "invalid"
    /\ state = "Completed"

\* the decision table of the branch handler, read on the stored flags
BranchCondition(op, fl) ==
    CASE op = <<"J", "M", "P">>      -> TRUE
      [] op = <<"J", "L">>           -> fl.less
      [] op = <<"J", "G">>           -> fl.greater
      [] op = <<"J", "L", "E">>      -> fl.less \/ fl.equal
      [] op = <<"J", "G", "E">>      -> fl.greater \/ fl.equal
      [] op = <<"J", "E">>           -> fl.equal
      [] op = <<"J", "N", "E">>      -> ~fl.equal

\* C12: a jump executed at IC = i whose condition holds sets IC to exactly
\* the resolved target, one whose condition fails sets IC to exactly i + 1,
\* and every instruction that is neither a jump nor HLT and does not fault
\* sets IC to exactly i + 1.
C12_NextCounterIsExact ==
    [][/\ (/\ Stepped
           /\ Executed # <<>>
           /\ Executed[1] \in JumpMnemonics
           /\ Len(Executed) = 2
           /\ Resolved(Executed[2], ram) # {})
          => \A t \in Resolved(Executed[2], ram) :
                /\ BranchCondition(Executed[1], flags) => ic' = t
                /\ ~BranchCondition(Executed[1], flags) => ic' = ic + 1
       /\ (/\ Stepped
           /\ state' # "Faulted"
           /\ (Executed = <<>> \/ (~InJumpFamily(Executed[1]) /\ Executed[1] # OpHLT)))
          => ic' = ic + 1]_vars

\* C13: an instruction is fetched and executed only when
\* 0 <= IC < len(Program); once a jump has set IC outside that range, a
\* negative target included, no instruction executes any more.
C13_ExecutesOnlyInRange ==
    [][Stepped => (0 <= ic /\ ic < Len(program))]_vars

\* C14: only CMP changes the flags: a step that executes anything else, a
\* jump taken or not included, leaves less, equal and greater as they were;
\* less and equal are never both true.
C14_OnlyCmpChangesFlags ==
    /\ [](~(flags.less /\ flags.equal))
    /\ [][(~Stepped \/ Executed = <<>> \/ Executed[1] # OpCMP)
          => flags' = flags]_vars

\* a comparison set less, then a taken JL ran and less is still set
C14_Witness ==
    /\ Len(program) = 3
    /\ program[1] = <<OpCMP, int_tok(0), int_tok(1)>>
    /\ program[2] = <<<<"J", "L">>, int_tok(2)>>
    /\ steps = 2
    /\ last = 1
    /\ ic = 2
    /\ flags.less
    /\ ~flags.equal

\* C15: a step that ends the run Faulted leaves the memory, cell for cell,
\* as it was before the faulting instruction started.
C15_FaultLeavesMemory ==
    [][state' = "Faulted" => ram' = ram]_vars

\* 2 was typed into cell 0, then ADD [0] 1 [-4] faulted on its second source
C15_Witness ==
    /\ state = "Faulted"
    /\ steps = 3
    /\ last = 2
    /\ program[3] = <<OpADD, br(int_tok(0)), int_tok(1), br(int_tok(0 - RamSize - 1))>>
    /\ ram[0] = 2
    /\ \A c \in Cells \ {0} : ram[c] = 0

\* q is the floor of x / y and r the remainder of that division (y # 0)
IsFloorDivision(x, y, q, r) ==
    /\ x = q * y + r
    /\ IF y > 0 THEN 0 <= r /\ r < y ELSE y < r /\ r <= 0

\* what op stores for the source values x and y
ArithResult(op, x, y, v) ==
    CASE op = OpADD -> v = x + y
      [] op = OpSUB -> v = x - y
      [] op = OpMUL -> v = x * y
      [] op = OpDIV -> \E r \in (0 - 10)..10 : IsFloorDivision(x, y, v, r)
      [] op = OpMOD -> \E q \in (0 - 10)..10 : IsFloorDivision(x, y, q, v)

\* C16: ADD, SUB, MUL, DIV, MOD dest, s1, s2 with an in-range destination
\* and resolvable sources x, y (y # 0 for DIV and MOD) store x+y, x-y, x*y,
\* floor(x/y), x - y*floor(x/y) at Memory[dest] and change no other cell,
\* also when dest is a source cell.
C16_ArithmeticResults ==
    [][(/\ Stepped
        /\ Executed # <<>>
        /\ Executed[1] \in ArithOps
        /\ Len(Executed) = 4
        /\ (IdxOf(Executed[2]) \cap Cells) # {}
        /\ Resolved(Executed[3], ram) # {}
        /\ Resolved(Executed[4], ram) # {}
        /\ (Executed[1] \in {OpDIV, OpMOD} => 0 \notin Resolved(Executed[4], ram)))
       => \A d \in (IdxOf(Executed[2]) \cap Cells), x \in Resolved(Executed[3], ram),
             y \in Resolved(Executed[4], ram) :
             /\ state' # "Faulted"
             /\ DOMAIN ram' = DOMAIN ram
             /\ ArithResult(Executed[1], x, y, ram'[d])
             /\ \A c \in Cells \ {d} : ram'[c] = ram[c]]_vars

\* -1 was typed into cell 0, then DIV [0] [0] 2 stored floor(-1 / 2) = -1
C16_Witness ==
    /\ steps = 3
    /\ last = 2
    /\ program[3] = <<OpDIV, br(int_tok(0)), br(int_tok(0)), int_tok(2)>>
    /\ flags.less
    /\ ram[0] = 0 - 1
    /\ state # "Faulted"

\* the destination is written as a bare integer, without brackets
BareDest(instr) == \E tok \in DestOf(instr) : LitOf(tok) # {}

\* C17: a data instruction or input-form INT whose destination is a bare
\* integer such as 3 instead of [3] ends the run Faulted and writes no cell.
C17_BareDestFaults ==
    [][(Stepped /\ BareDest(Executed))
       => /\ state' = "Faulted"
          /\ ram' = ram]_vars

\* no line of the program is routed to the jump handler
NoJumpProgram ==
    \A k \in 1..Len(program) : program[k] = <<>> \/ ~InJumpFamily(program[k][1])

\* C18: a program without a jump-family instruction terminates: each
\* executed instruction is the one at IC and leaves IC one higher, until
\* HLT, a fault or IC = len(Program); so the k-th instruction executed is
\* the one at index k - 1 and at most len(Program) instructions execute.
C18_NoJumpProgramTerminates ==
    /\ [](NoJumpProgram
          => /\ steps <= Len(program)
             /\ state = "Running" => (ic = steps /\ ic < Len(program))
             /\ steps > 0 => last = steps - 1)
    /\ [][(NoJumpProgram /\ Stepped /\ state' \in {"Running", "Completed"})
          => ic' = ic + 1]_vars
    /\ <>(~NoJumpProgram \/ state # "Running")

\* a program of four lines without a jump ran every line once and completed
C18_Witness ==
    /\ NoJumpProgram
    /\ Len(program) = 4
    /\ steps = 4
    /\ last = 3
    /\ ic = 4
    /\ state = "Completed"

\* C19: the stored flag greater is false in every reachable state: it
\* starts false and no instruction, CMP included, assigns it.
C19_GreaterNeverSet == ~flags.greater

\* CMP 1 0 executed and left all three flags false
C19_Witness ==
    /\ steps = 1
    /\ last = 0
    /\ program[1] = <<OpCMP, int_tok(1), int_tok(0)>>
    /\ state # "Faulted"
    /\ ~flags.less
    /\ ~flags.equal
    /\ ~flags.greater

=============================================================================
